---------------------------- MODULE Spec2Model ----------------------------
(***************************************************************************)
(* DocFill-AI template filler (src/modules/template_filler.py).            *)
(*                                                                         *)
(* A string is a sequence of characters; a character is a one-element      *)
(* TLA+ string for printable ASCII (the backquote excepted) and a token    *)
(* "xNN" (its code in hex) for every other code below 256.  The regular    *)
(* expressions (re.sub with re.IGNORECASE over patterns built from         *)
(* re.escape, and the replacement templates built from the field value)    *)
(* are modelled by what Python's re module computes for them.              *)
(***************************************************************************)
EXTENDS Integers, Sequences, FiniteSets, TLC

(***************************************************************************)
(* Characters                                                              *)
(***************************************************************************)
CharTable ==
    << "x00", "x01", "x02", "x03", "x04", "x05", "x06", "x07",
       "x08", "x09", "x0a", "x0b", "x0c", "x0d", "x0e", "x0f",
       "x10", "x11", "x12", "x13", "x14", "x15", "x16", "x17",
       "x18", "x19", "x1a", "x1b", "x1c", "x1d", "x1e", "x1f",
       " ", "!", "\"", "#", "$", "%", "&", "'",
       "(", ")", "*", "+", ",", "-", ".", "/",
       "0", "1", "2", "3", "4", "5", "6", "7",
       "8", "9", ":", ";", "<", "=", ">", "?",
       "@", "A", "B", "C", "D", "E", "F", "G",
       "H", "I", "J", "K", "L", "M", "N", "O",
       "P", "Q", "R", "S", "T", "U", "V", "W",
       "X", "Y", "Z", "[", "\\", "]", "^", "_",
       "x60", "a", "b", "c", "d", "e", "f", "g",
       "h", "i", "j", "k", "l", "m", "n", "o",
       "p", "q", "r", "s", "t", "u", "v", "w",
       "x", "y", "z", "{", "|", "}", "~", "x7f",
       "x80", "x81", "x82", "x83", "x84", "x85", "x86", "x87",
       "x88", "x89", "x8a", "x8b", "x8c", "x8d", "x8e", "x8f",
       "x90", "x91", "x92", "x93", "x94", "x95", "x96", "x97",
       "x98", "x99", "x9a", "x9b", "x9c", "x9d", "x9e", "x9f",
       "xa0", "xa1", "xa2", "xa3", "xa4", "xa5", "xa6", "xa7",
       "xa8", "xa9", "xaa", "xab", "xac", "xad", "xae", "xaf",
       "xb0", "xb1", "xb2", "xb3", "xb4", "xb5", "xb6", "xb7",
       "xb8", "xb9", "xba", "xbb", "xbc", "xbd", "xbe", "xbf",
       "xc0", "xc1", "xc2", "xc3", "xc4", "xc5", "xc6", "xc7",
       "xc8", "xc9", "xca", "xcb", "xcc", "xcd", "xce", "xcf",
       "xd0", "xd1", "xd2", "xd3", "xd4", "xd5", "xd6", "xd7",
       "xd8", "xd9", "xda", "xdb", "xdc", "xdd", "xde", "xdf",
       "xe0", "xe1", "xe2", "xe3", "xe4", "xe5", "xe6", "xe7",
       "xe8", "xe9", "xea", "xeb", "xec", "xed", "xee", "xef",
       "xf0", "xf1", "xf2", "xf3", "xf4", "xf5", "xf6", "xf7",
       "xf8", "xf9", "xfa", "xfb", "xfc", "xfd", "xfe", "xff" >>

Chr(n) == CharTable[n + 1]

Chars == {CharTable[i] : i \in 1..Len(CharTable)}

OrdOf == [c \in Chars |-> CHOOSE n \in 0..(Len(CharTable) - 1) : CharTable[n + 1] = c]

Ord(c) == OrdOf[c]

\* str.lower() / re.IGNORECASE on one character (ASCII and Latin-1 letters)
IsUpperCode(n) == (n >= 65 /\ n <= 90) \/ (n >= 192 /\ n <= 222 /\ n # 215)

LowerOf == [c \in Chars |-> IF IsUpperCode(Ord(c)) THEN Chr(Ord(c) + 32) ELSE c]

Lower(c) == LowerOf[c]

LowerStr(s) == [i \in 1..Len(s) |-> Lower(s[i])]

\* \s of a str pattern and str.isspace(), for codes below 256
SpaceChars == {Chr(n) : n \in {9, 10, 11, 12, 13, 28, 29, 30, 31, 32, 133, 160}}

IsSpace(c) == c \in SpaceChars

Digits == {"0", "1", "2", "3", "4", "5", "6", "7", "8", "9"}

OctDigits == {"0", "1", "2", "3", "4", "5", "6", "7"}

AsciiLetters == {Chr(n) : n \in (65..90) \cup (97..122)}

DigitVal(c) == Ord(c) - Ord("0")

\* s[a..b], empty when b < a
Slice(s, a, b) == IF b < a THEN <<>> ELSE SubSeq(s, a, b)

\* first position >= p of s that holds no character of the set cs (Len(s)+1 if none)
RECURSIVE SkipWhile(_, _, _)
SkipWhile(s, p, cs) ==
    IF p <= Len(s) /\ s[p] \in cs THEN SkipWhile(s, p + 1, cs) ELSE p

\* str.strip()
RECURSIVE LastNonSpace(_, _)
LastNonSpace(s, p) ==
    IF p >= 1 /\ IsSpace(s[p]) THEN LastNonSpace(s, p - 1) ELSE p

strip(s) == Slice(s, SkipWhile(s, 1, SpaceChars), LastNonSpace(s, Len(s)))

\* "needle in haystack" of two strings
Contains(haystack, needle) ==
    \E p \in 1..(Len(haystack) - Len(needle) + 1) :
        SubSeq(haystack, p, p + Len(needle) - 1) = needle

(***************************************************************************)
(* Replacement templates: what re.sub does with its repl argument.  The    *)
(* template is parsed before any matching, so an ill-formed template       *)
(* raises whether or not the pattern occurs in the text.  A parsed         *)
(* template is [err, items]: err is "none", "re.error" or "IndexError",    *)
(* an item is a literal character (g = -1) or a reference to group g.      *)
(***************************************************************************)
Lit(c) == [g |-> -1, ch |-> c]

GroupRef(n) == [g |-> n, ch |-> ""]

Parsed(items) == [err |-> "none", items |-> items]

Raise(e) == [err |-> e, items |-> <<>>]

Then(items, rest) ==
    IF rest.err # "none" THEN rest ELSE Parsed(items \o rest.items)

\* str.isidentifier(), for codes below 256
IdStartCodes ==
    (65..90) \cup (97..122) \cup {95, 170, 181, 186}
        \cup (192..214) \cup (216..246) \cup (248..255)

IdContinueCodes == IdStartCodes \cup (48..57) \cup {183}

isidentifier(s) ==
    /\ Len(s) > 0
    /\ Ord(s[1]) \in IdStartCodes
    /\ \A i \in 2..Len(s) : Ord(s[i]) \in IdContinueCodes

RECURSIVE DecimalValue(_, _)
DecimalValue(s, acc) ==
    IF s = <<>> THEN acc
    ELSE IF Head(s) = "_" THEN DecimalValue(Tail(s), acc)
    ELSE DecimalValue(Tail(s), 10 * acc + DigitVal(Head(s)))

\* int(name) of a group name: the index, or -1 where int() raises ValueError
\* or the index is negative
IntOfName(name) ==
    LET s    == strip(name)
        sign == IF Len(s) > 0 /\ s[1] \in {"+", "-"} THEN s[1] ELSE ""
        body == IF sign = "" THEN s ELSE Tail(s)
        good == /\ Len(body) > 0
                /\ body[1] \in Digits
                /\ body[Len(body)] \in Digits
                /\ \A i \in 1..Len(body) : body[i] \in Digits \cup {"_"}
                /\ \A i \in 1..(Len(body) - 1) : ~(body[i] = "_" /\ body[i + 1] = "_")
        v    == DecimalValue(body, 0)
    IN  IF ~good THEN -1
        ELSE IF sign = "-" /\ v > 0 THEN -1
        ELSE v

\* the escapes of a template that stand for one character
EscapeLetters == {"a", "b", "f", "n", "r", "t", "v", "\\"}

EscapeChar(c) ==
    CASE c = "a" -> Chr(7)
      [] c = "b" -> Chr(8)
      [] c = "f" -> Chr(12)
      [] c = "n" -> Chr(10)
      [] c = "r" -> Chr(13)
      [] c = "t" -> Chr(9)
      [] c = "v" -> Chr(11)
      [] c = "\\" -> "\\"

\* parse_template(source, state) from position p, for a pattern with ngroups groups
\* and no named group
RECURSIVE parse_template(_, _, _)
parse_template(t, p, ngroups) ==
    IF p > Len(t) THEN Parsed(<<>>)
    ELSE IF t[p] # "\\" THEN Then(<<Lit(t[p])>>, parse_template(t, p + 1, ngroups))
    ELSE IF p = Len(t) THEN Raise("re.error")
    ELSE
      LET c == t[p + 1] IN
      IF c = "g" THEN
        IF p + 2 > Len(t) \/ t[p + 2] # "<" THEN Raise("re.error")
        ELSE
          LET q    == SkipWhile(t, p + 3, Chars \ {">", "\\"})
              name == Slice(t, p + 3, q - 1)
              idx  == IntOfName(name)
          IN  IF q > Len(t) \/ t[q] = "\\" \/ name = <<>> THEN Raise("re.error")
              ELSE IF isidentifier(name) THEN Raise("IndexError")
              ELSE IF idx < 0 \/ idx > ngroups THEN Raise("re.error")
              ELSE Then(<<GroupRef(idx)>>, parse_template(t, q + 1, ngroups))
      ELSE IF c = "0" THEN
        LET n1 == IF p + 2 <= Len(t) /\ t[p + 2] \in OctDigits THEN 1 ELSE 0
            n2 == IF n1 = 1 /\ p + 3 <= Len(t) /\ t[p + 3] \in OctDigits THEN 1 ELSE 0
            v  == IF n1 = 0 THEN 0
                  ELSE IF n2 = 0 THEN DigitVal(t[p + 2])
                  ELSE 8 * DigitVal(t[p + 2]) + DigitVal(t[p + 3])
        IN  Then(<<Lit(Chr(v % 256))>>, parse_template(t, p + 2 + n1 + n2, ngroups))
      ELSE IF c \in Digits THEN
        LET two   == p + 2 <= Len(t) /\ t[p + 2] \in Digits
            octal == /\ two
                     /\ c \in OctDigits
                     /\ t[p + 2] \in OctDigits
                     /\ p + 3 <= Len(t)
                     /\ t[p + 3] \in OctDigits
            ov    == 64 * DigitVal(c) + 8 * DigitVal(t[p + 2]) + DigitVal(t[p + 3])
            idx   == IF two THEN 10 * DigitVal(c) + DigitVal(t[p + 2]) ELSE DigitVal(c)
        IN  IF octal THEN
              IF ov > 255 THEN Raise("re.error")
              ELSE Then(<<Lit(Chr(ov))>>, parse_template(t, p + 4, ngroups))
            ELSE IF idx > ngroups THEN Raise("re.error")
            ELSE Then(<<GroupRef(idx)>>,
                      parse_template(t, p + (IF two THEN 3 ELSE 2), ngroups))
      ELSE IF c \in EscapeLetters THEN
        Then(<<Lit(EscapeChar(c))>>, parse_template(t, p + 2, ngroups))
      ELSE IF c \in AsciiLetters THEN Raise("re.error")
      ELSE Then(<<Lit("\\"), Lit(c)>>, parse_template(t, p + 2, ngroups))

\* expand_template(template, match): groups[g + 1] is the text of group g
RECURSIVE expand_template(_, _)
expand_template(items, groups) ==
    IF items = <<>> THEN <<>>
    ELSE (IF Head(items).g < 0 THEN <<Head(items).ch>> ELSE groups[Head(items).g + 1])
             \o expand_template(Tail(items), groups)

(***************************************************************************)
(* Patterns: the five placeholder syntaxes of fill_paragraph.  A compiled  *)
(* pattern is [kind, open, atoms, close, ngroups]; atoms is the compiled   *)
(* field name, one atom per character.                                     *)
(***************************************************************************)
\* re.escape(field_name), compiled: every character of the name is a literal
re_escape(field_name) ==
    [i \in 1..Len(field_name) |-> [any |-> FALSE, ch |-> field_name[i]]]

\* one atom against one character, under re.IGNORECASE
AtomMatches(atom, c) ==
    IF atom.any THEN c # Chr(10) ELSE Lower(atom.ch) = Lower(c)

MatchAtoms(atoms, text, p) ==
    /\ p + Len(atoms) - 1 <= Len(text)
    /\ \A i \in 1..Len(atoms) : AtomMatches(atoms[i], text[p + i - 1])

MatchLiteral(lit, text, p) ==
    /\ p + Len(lit) - 1 <= Len(text)
    /\ \A i \in 1..Len(lit) : lit[i] = text[p + i - 1]

\* the (pattern, replacement) pairs of one field, in the order they are tried
patterns(field_name, value) ==
    << [kind |-> "colon", open |-> <<>>, atoms |-> re_escape(field_name),
        close |-> <<>>, ngroups |-> 2, repl |-> <<"\\", "1">> \o value],
       [kind |-> "underscores", open |-> <<>>, atoms |-> re_escape(field_name),
        close |-> <<>>, ngroups |-> 2, repl |-> <<"\\", "1">> \o value],
       [kind |-> "token", open |-> <<"[">>, atoms |-> re_escape(field_name),
        close |-> <<"]">>, ngroups |-> 0, repl |-> value],
       [kind |-> "token", open |-> <<"{", "{">>, atoms |-> re_escape(field_name),
        close |-> <<"}", "}">>, ngroups |-> 0, repl |-> value],
       [kind |-> "token", open |-> <<"<">>, atoms |-> re_escape(field_name),
        close |-> <<">">>, ngroups |-> 0, repl |-> value] >>

NoMatch == [ok |-> FALSE, end |-> 0, groups |-> <<>>]

\* (name\s*:\s*)(_+|\s*$) at position p: \s* is greedy and the second group is the
\* run of underscores that follows or, failing that, empty at the end of the text
MatchColon(pat, text, p) ==
    LET q  == p + Len(pat.atoms)
        q1 == SkipWhile(text, q, SpaceChars)
        q3 == SkipWhile(text, q1 + 1, SpaceChars)
        e  == SkipWhile(text, q3, {"_"})
    IN  IF /\ MatchAtoms(pat.atoms, text, p)
           /\ q1 <= Len(text)
           /\ text[q1] = ":"
           /\ (e > q3 \/ q3 = Len(text) + 1)
        THEN [ok |-> TRUE, end |-> e,
              groups |-> <<Slice(text, p, e - 1), Slice(text, p, q3 - 1),
                           Slice(text, q3, e - 1)>>]
        ELSE NoMatch

\* (name\s*)(_+) at position p
MatchUnderscores(pat, text, p) ==
    LET q  == p + Len(pat.atoms)
        q1 == SkipWhile(text, q, SpaceChars)
        e  == SkipWhile(text, q1, {"_"})
    IN  IF MatchAtoms(pat.atoms, text, p) /\ e > q1
        THEN [ok |-> TRUE, end |-> e,
              groups |-> <<Slice(text, p, e - 1), Slice(text, p, q1 - 1),
                           Slice(text, q1, e - 1)>>]
        ELSE NoMatch

\* \[name\], \{\{name\}\}, <name> at position p
MatchToken(pat, text, p) ==
    LET q == p + Len(pat.open)
        r == q + Len(pat.atoms)
        e == r + Len(pat.close)
    IN  IF /\ MatchLiteral(pat.open, text, p)
           /\ MatchAtoms(pat.atoms, text, q)
           /\ MatchLiteral(pat.close, text, r)
        THEN [ok |-> TRUE, end |-> e, groups |-> <<Slice(text, p, e - 1)>>]
        ELSE NoMatch

MatchAt(pat, text, p) ==
    CASE pat.kind = "colon" -> MatchColon(pat, text, p)
      [] pat.kind = "underscores" -> MatchUnderscores(pat, text, p)
      [] pat.kind = "token" -> MatchToken(pat, text, p)

\* the substitution loop of re.sub from position p: leftmost matches, not
\* overlapping, each replaced by the expanded template (no pattern here matches
\* the empty string)
RECURSIVE SubFrom(_, _, _, _)
RECURSIVE SubMatch(_, _, _, _, _)
SubFrom(pat, items, text, p) ==
    IF p > Len(text) THEN <<>> ELSE SubMatch(MatchAt(pat, text, p), pat, items, text, p)

SubMatch(m, pat, items, text, p) ==
    IF m.ok THEN expand_template(items, m.groups) \o SubFrom(pat, items, text, m.end)
    ELSE <<text[p]>> \o SubFrom(pat, items, text, p + 1)

\* the rest of re.sub once the template is parsed: [err, text]
SubParsed(tpl, pat, text) ==
    IF tpl.err # "none" THEN [err |-> tpl.err, text |-> text]
    ELSE [err |-> "none", text |-> SubFrom(pat, tpl.items, text, 1)]

\* re.sub(pattern, replacement, text, flags=re.IGNORECASE): [err, text]
re_sub(pat, text) == SubParsed(parse_template(pat.repl, 1, pat.ngroups), pat, text)

(***************************************************************************)
(* fill_paragraph on text: the loop over fields and patterns.  A result is *)
(* [exc, text, calls]: exc is "none", or the exception that leaves the     *)
(* function (re.error is caught and the pattern skipped; nothing else is   *)
(* caught); calls is the record of the re.sub calls made, in order: the    *)
(* field, the index of the pattern, the text passed (before), the text     *)
(* new_text holds afterwards (after) and how the call ended (err).         *)
(***************************************************************************)
\* a guard that only tests "if value"
HasValueNotEmpty(value) == value # <<>>

\* the guard "if value and value != 'N/A'"
HasValue(value) == value # <<>> /\ value # <<"N", "/", "A">>

Call(field, j, before, after, err) ==
    [name |-> field.name, value |-> field.value, j |-> j,
     before |-> before, after |-> after, err |-> err]

\* a try block without the "except re.error" clause
NotCaught(r, new_text) ==
    [exc  |-> IF r.err = "none" THEN "none" ELSE r.err,
     text |-> IF r.err = "none" THEN r.text ELSE new_text,
     err  |-> r.err]

\* lines 80-83: re.error is caught, anything else leaves fill_paragraph
Caught(r, new_text) ==
    [exc  |-> IF r.err \in {"none", "re.error"} THEN "none" ELSE r.err,
     text |-> IF r.err = "none" THEN r.text ELSE new_text,
     err  |-> r.err]

\* one turn of "for pattern, replacement in patterns" (lines 79-83)
try_pattern(new_text, pat) == Caught(re_sub(pat, new_text), new_text)

\* lines 79-83 from pattern j on; calls holds the calls made so far
RECURSIVE try_patterns(_, _, _, _, _)
RECURSIVE NextPattern(_, _, _, _, _, _)
try_patterns(new_text, field, pats, j, calls) ==
    IF j > Len(pats) THEN [exc |-> "none", text |-> new_text, calls |-> calls]
    ELSE NextPattern(try_pattern(new_text, pats[j]), new_text, field, pats, j, calls)

\* a loop that breaks at the first pattern that rewrote the text
NextPatternFirstMatch(r, new_text, field, pats, j, calls) ==
    IF r.exc # "none" \/ r.text # new_text
    THEN [exc |-> r.exc, text |-> r.text,
          calls |-> Append(calls, Call(field, j, new_text, r.text, r.err))]
    ELSE try_patterns(r.text, field, pats, j + 1,
                      Append(calls, Call(field, j, new_text, r.text, r.err)))

NextPattern(r, new_text, field, pats, j, calls) ==
    IF r.exc # "none"
    THEN [exc |-> r.exc, text |-> new_text,
          calls |-> Append(calls, Call(field, j, new_text, new_text, r.err))]
    ELSE try_patterns(r.text, field, pats, j + 1,
                      Append(calls, Call(field, j, new_text, r.text, r.err)))

\* one turn of "for field_name, value in field_values.items()" (lines 63-83)
fill_field(new_text, field, calls) ==
    IF HasValue(field.value)
    THEN try_patterns(new_text, field, patterns(field.name, field.value), 1, calls)
    ELSE [exc |-> "none", text |-> new_text, calls |-> calls]

\* a loop that ends after its first field
NextFieldFirstOnly(r, field_values, k) == r

\* lines 63-83 from field k on
RECURSIVE fill_fields(_, _, _, _)
RECURSIVE NextField(_, _, _)
fill_fields(new_text, field_values, k, calls) ==
    IF k > Len(field_values) THEN [exc |-> "none", text |-> new_text, calls |-> calls]
    ELSE NextField(fill_field(new_text, field_values[k], calls), field_values, k)

NextField(r, field_values, k) ==
    IF r.exc # "none" THEN r ELSE fill_fields(r.text, field_values, k + 1, r.calls)

(***************************************************************************)
(* The document tree (python-docx): a paragraph is its sequence of runs, a *)
(* run is [text, fmt]; a cell is its sequence of paragraphs, a row its     *)
(* sequence of cells, a table its sequence of rows; a section is [header,  *)
(* footer], each a sequence of paragraphs.                                 *)
(***************************************************************************)
RECURSIVE Concat(_)
Concat(ss) == IF ss = <<>> THEN <<>> ELSE Head(ss) \o Concat(Tail(ss))

\* Paragraph.text: the texts of the runs, concatenated
ParagraphText(paragraph) == Concat([i \in 1..Len(paragraph) |-> paragraph[i].text])

\* _Cell.text: the texts of the paragraphs, joined by newlines
RECURSIVE JoinLines(_)
JoinLines(ss) ==
    IF ss = <<>> THEN <<>>
    ELSE IF Len(ss) = 1 THEN Head(ss)
    ELSE Head(ss) \o <<Chr(10)>> \o JoinLines(Tail(ss))

CellText(cell) == JoinLines([i \in 1..Len(cell) |-> ParagraphText(cell[i])])

\* the formatting of a run that python-docx adds itself (Paragraph.text = ...)
NewRunFmt == "default"

\* Paragraph.text = text: the content is cleared and one run added
SetParagraphText(paragraph, text) == <<[text |-> text, fmt |-> NewRunFmt]>>

\* a write-back through Paragraph.text, which drops the runs
write_back_text(paragraph, original_text, new_text) ==
    IF new_text # original_text THEN SetParagraphText(paragraph, new_text)
    ELSE paragraph

\* lines 85-95: the write-back of fill_paragraph
write_back(paragraph, original_text, new_text) ==
    IF new_text # original_text
    THEN IF paragraph # <<>>
         THEN [i \in 1..Len(paragraph) |->
                  [paragraph[i] EXCEPT !.text = IF i = 1 THEN new_text ELSE <<>>]]
         ELSE SetParagraphText(paragraph, new_text)
    ELSE paragraph

\* lines 85-95 after the loop ended with result r
Written(r, paragraph, original_text) ==
    [exc       |-> r.exc,
     paragraph |-> IF r.exc # "none" THEN paragraph
                   ELSE write_back(paragraph, original_text, r.text),
     calls     |-> r.calls]

FilledFrom(paragraph, original_text, field_values) ==
    Written(fill_fields(original_text, field_values, 1, <<>>), paragraph, original_text)

\* fill_paragraph(paragraph, field_values): [exc, paragraph, calls]
fill_paragraph(paragraph, field_values) ==
    FilledFrom(paragraph, ParagraphText(paragraph), field_values)

\* fill_paragraph over the paragraphs of a cell from index p on (the loop of
\* line 132): [exc, paragraphs, calls]
RECURSIVE fill_paragraphs(_, _, _, _)
RECURSIVE NextParagraph(_, _, _, _, _)
fill_paragraphs(paragraphs, field_values, p, calls) ==
    IF p > Len(paragraphs)
    THEN [exc |-> "none", paragraphs |-> paragraphs, calls |-> calls]
    ELSE NextParagraph(fill_paragraph(paragraphs[p], field_values), paragraphs,
                       field_values, p, calls)

NextParagraph(r, paragraphs, field_values, p, calls) ==
    IF r.exc # "none"
    THEN [exc |-> r.exc, paragraphs |-> paragraphs, calls |-> calls \o r.calls]
    ELSE fill_paragraphs([paragraphs EXCEPT ![p] = r.paragraph], field_values,
                         p + 1, calls \o r.calls)

(***************************************************************************)
(* fill_table: the visit of one cell (lines 110-133).  A result is [exc,   *)
(* row, labels, calls]: labels records, for every field with a value, what *)
(* the label/adjacent-value strategy read and whether it wrote.            *)
(***************************************************************************)
\* re.match(r'^_+$|^\s*$', text): $ also matches before a final newline
re_match_blank(text) ==
    LET e == SkipWhile(text, 1, {"_"}) IN
    \/ e > 1 /\ (e = Len(text) + 1 \/ (e = Len(text) /\ text[e] = Chr(10)))
    \/ \A i \in 1..Len(text) : IsSpace(text[i])

\* a test that takes every following cell
is_fillable_always(next_text) == TRUE

\* line 124: "if not next_text or re.match(...)"
is_fillable(next_text) == next_text = <<>> \/ re_match_blank(next_text)

\* line 117: "if field_name.lower() in cell_text.lower()"
name_in_cell(field_name, cell_text) ==
    Contains(LowerStr(cell_text), LowerStr(field_name))

\* a write through "next_cell.text = str(value)" in every case: the content
\* of the cell is cleared and one paragraph added
write_value_cell_text(next_cell, value) == <<SetParagraphText(<<>>, value)>>

\* lines 126-129: the value goes to the first paragraph of the next cell
write_value(next_cell, value) ==
    IF next_cell # <<>>
    THEN [next_cell EXCEPT ![1] = SetParagraphText(next_cell[1], value)]
    ELSE <<SetParagraphText(<<>>, value)>>

\* lines 123-129 once next_text is read: [row, label]
Labelled(row, i, cell_text, field, found, has_next, next_text) ==
    [row   |-> IF found /\ has_next /\ is_fillable(next_text)
               THEN [row EXCEPT ![i + 1] = write_value(row[i + 1], field.value)]
               ELSE row,
     label |-> [name |-> field.name, value |-> field.value, i |-> i,
                cell_text |-> cell_text, has_next |-> has_next,
                next_text |-> next_text,
                wrote |-> found /\ has_next /\ is_fillable(next_text)]]

\* lines 117-129 for one field: [row, label]
label_adjacent(row, i, cell_text, field) ==
    Labelled(row, i, cell_text, field, name_in_cell(field.name, cell_text),
             i + 1 <= Len(row),
             IF i + 1 <= Len(row) THEN strip(CellText(row[i + 1])) ELSE <<>>)

\* lines 114-133 from field k on, for cell i of the row
RECURSIVE fill_cell_fields(_, _, _, _, _, _, _)
RECURSIVE WithinCell(_, _, _, _, _, _, _)
RECURSIVE NextCellField(_, _, _, _, _, _, _)
fill_cell_fields(row, i, cell_text, field_values, k, labels, calls) ==
    IF k > Len(field_values)
    THEN [exc |-> "none", row |-> row, labels |-> labels, calls |-> calls]
    ELSE IF ~HasValue(field_values[k].value)
    THEN fill_cell_fields(row, i, cell_text, field_values, k + 1, labels, calls)
    ELSE WithinCell(label_adjacent(row, i, cell_text, field_values[k]), i, cell_text,
                    field_values, k, labels, calls)

\* lines 132-133 after the label/adjacent-value strategy returned la
WithinCell(la, i, cell_text, field_values, k, labels, calls) ==
    NextCellField(fill_paragraphs(la.row[i], <<field_values[k]>>, 1, calls), la.row, i,
                  cell_text, field_values, k, Append(labels, la.label))

NextCellField(within, row, i, cell_text, field_values, k, labels) ==
    IF within.exc # "none"
    THEN [exc |-> within.exc, row |-> [row EXCEPT ![i] = within.paragraphs],
          labels |-> labels, calls |-> within.calls]
    ELSE fill_cell_fields([row EXCEPT ![i] = within.paragraphs], i, cell_text,
                          field_values, k + 1, labels, within.calls)

\* the body of "for i, cell in enumerate(cells)" (lines 110-133)
fill_cell(row, i, field_values) ==
    fill_cell_fields(row, i, strip(CellText(row[i])), field_values, 1, <<>>, <<>>)

(***************************************************************************)
(* fill_template: the locations it visits, in the order of its loops.      *)
(***************************************************************************)
Loc(kind, a, b, c) == [kind |-> kind, a |-> a, b |-> b, c |-> c]

RECURSIVE RowLocations(_, _, _, _)
RowLocations(d, t, r, c) ==
    IF c > Len(d.tables[t][r]) THEN <<>>
    ELSE <<Loc("cell", t, r, c)>> \o RowLocations(d, t, r, c + 1)

RECURSIVE TableLocations(_, _, _)
TableLocations(d, t, r) ==
    IF r > Len(d.tables[t]) THEN <<>>
    ELSE RowLocations(d, t, r, 1) \o TableLocations(d, t, r + 1)

RECURSIVE TablesLocations(_, _)
TablesLocations(d, t) ==
    IF t > Len(d.tables) THEN <<>>
    ELSE TableLocations(d, t, 1) \o TablesLocations(d, t + 1)

RECURSIVE SectionsLocations(_, _)
SectionsLocations(d, s) ==
    IF s > Len(d.sections) THEN <<>>
    ELSE [p \in 1..Len(d.sections[s].header) |-> Loc("header", s, p, 0)]
         \o [p \in 1..Len(d.sections[s].footer) |-> Loc("footer", s, p, 0)]
         \o SectionsLocations(d, s + 1)

\* loops that reach the headers and footers before the tables
LocationsSectionsFirst(d) ==
    [p \in 1..Len(d.paragraphs) |-> Loc("paragraph", p, 0, 0)]
        \o SectionsLocations(d, 1)
        \o TablesLocations(d, 1)

Locations(d) ==
    [p \in 1..Len(d.paragraphs) |-> Loc("paragraph", p, 0, 0)]
        \o TablesLocations(d, 1)
        \o SectionsLocations(d, 1)

(***************************************************************************)
(* State.  fill_template runs over doc with field_values; n is the index   *)
(* (in Locations) of the location its loops reach next, pc is "running",   *)
(* "done" (line 47 returned doc) or "raised" (an exception left            *)
(* fill_template).  doc0 is the document as the running pass received it,  *)
(* pass counts the passes; calls and labels record what the last step did. *)
(***************************************************************************)
VARIABLES doc, field_values, pc, n, doc0, pass, calls, labels

vars == <<doc, field_values, pc, n, doc0, pass, calls, labels>>

\* the paragraph or cell at a location
At(d, loc) ==
    CASE loc.kind = "paragraph" -> d.paragraphs[loc.a]
      [] loc.kind = "cell" -> d.tables[loc.a][loc.b][loc.c]
      [] loc.kind = "header" -> d.sections[loc.a].header[loc.b]
      [] loc.kind = "footer" -> d.sections[loc.a].footer[loc.b]

\* the document with the paragraph or row at a location replaced
WithAt(d, loc, x) ==
    CASE loc.kind = "paragraph" -> [d EXCEPT !.paragraphs[loc.a] = x]
      [] loc.kind = "cell" -> [d EXCEPT !.tables[loc.a][loc.b] = x]
      [] loc.kind = "header" -> [d EXCEPT !.sections[loc.a].header[loc.b] = x]
      [] loc.kind = "footer" -> [d EXCEPT !.sections[loc.a].footer[loc.b] = x]

CellVisited(r, d, loc) ==
    [exc |-> r.exc, doc |-> WithAt(d, loc, r.row), calls |-> r.calls, labels |-> r.labels]

ParagraphVisited(r, d, loc) ==
    [exc |-> r.exc, doc |-> WithAt(d, loc, r.paragraph), calls |-> r.calls,
     labels |-> <<>>]

\* one step of fill_template at a location: [exc, doc, calls, labels]
Visit(d, loc, fv) ==
    IF loc.kind = "cell"
    THEN CellVisited(fill_cell(d.tables[loc.a][loc.b], loc.c, fv), d, loc)
    ELSE ParagraphVisited(fill_paragraph(At(d, loc), fv), d, loc)

\* the kind of the location the loops of fill_template reach next
NextKind ==
    IF pc = "running" /\ n <= Len(Locations(doc)) THEN Locations(doc)[n].kind ELSE "none"

\* one call of fill_paragraph or one turn of the cell loop of fill_table, made by
\* fill_template at location n; an exception ends fill_template
VisitNext ==
    \E r \in {Visit(doc, Locations(doc)[n], field_values)} :
        /\ doc' = r.doc
        /\ calls' = r.calls
        /\ labels' = r.labels
        /\ pc' = IF r.exc = "none" THEN "running" ELSE "raised"
        /\ n' = IF r.exc = "none" THEN n + 1 ELSE n
        /\ UNCHANGED <<field_values, doc0, pass>>

\* lines 31-32
FillDocParagraph ==
    /\ NextKind = "paragraph"
    /\ VisitNext

\* lines 35-36 with lines 107-133, one cell at a time
FillTableCell ==
    /\ NextKind = "cell"
    /\ VisitNext

\* lines 40-42
FillHeaderParagraph ==
    /\ NextKind = "header"
    /\ VisitNext

\* lines 43-45
FillFooterParagraph ==
    /\ NextKind = "footer"
    /\ VisitNext

\* line 47
Return ==
    /\ pc = "running"
    /\ n > Len(Locations(doc))
    /\ pc' = "done"
    /\ UNCHANGED <<doc, field_values, n, doc0, pass, calls, labels>>

MaxPasses == 2

\* the caller passes the filled document to fill_template again
FillAgain ==
    /\ pc = "done"
    /\ pass < MaxPasses
    /\ pc' = "running"
    /\ n' = 1
    /\ doc0' = doc
    /\ pass' = pass + 1
    /\ calls' = <<>>
    /\ labels' = <<>>
    /\ UNCHANGED <<doc, field_values>>

Start(d, fv) ==
    /\ doc = d
    /\ field_values = fv
    /\ pc = "running"
    /\ n = 1
    /\ doc0 = d
    /\ pass = 1
    /\ calls = <<>>
    /\ labels = <<>>

(***************************************************************************)
(* Bounded inputs.                                                         *)
(***************************************************************************)
\* the dicts of k fields: the keys are distinct, the order is the insertion order
FieldMaps(fields, k) ==
    {fv \in [1..k -> fields] : \A i, j \in 1..k : i # j => fv[i].name # fv[j].name}

MaxBlank == 2

Blank == [i \in 1..MaxBlank |-> "_"]

\* the placeholders of a template for a label spelled w
Placeholders(w) ==
    {w \o <<":", " ">> \o Blank, w \o <<":">>, w \o Blank, w \o <<" ">> \o Blank,
     <<"[">> \o w \o <<"]">>, <<"{", "{">> \o w \o <<"}", "}">>,
     <<"<">> \o w \o <<">">>}

RunFmts == <<"bold", "plain", "italic", "small">>

\* the paragraphs of k runs with texts of a set
Paragraphs(texts, k) ==
    {[i \in 1..k |-> [text |-> ts[i], fmt |-> RunFmts[i]]] : ts \in [1..k -> texts]}

OneRun(text) == <<[text |-> text, fmt |-> RunFmts[1]]>>

(***************************************************************************)
(* SpecPara: fill_template over a document of one paragraph.               *)
(***************************************************************************)
Names == {<<"a", "b">>, <<"b">>, <<"a", ".">>}

Values ==
    {<<"J">>, <<"1", "2">>, <<"5">>, <<"_">>, <<" ">>, <<"<", "a", ".", ">", "J">>,
     <<"\\", "g", "<", "x", ">">>, <<>>, <<"N", "/", "A">>}

Fields == [name : Names, value : Values]

\* the spellings of a label in a template
Labels == {<<"A", "b">>, <<"a", ".">>}

RunTexts == UNION {Placeholders(w) : w \in Labels} \cup {<<"x">>, <<" ">>}

MaxFields == 2

MaxSize == 3

\* one paragraph and a dict, together of at most MaxSize runs and fields
InitPara ==
    \E f \in 1..MaxFields, r \in 0..(MaxSize - 1) :
        /\ f + r <= MaxSize
        /\ \E fv \in FieldMaps(Fields, f), p \in Paragraphs(RunTexts, r) :
               Start([paragraphs |-> <<p>>, tables |-> <<>>, sections |-> <<>>], fv)

NextPara == FillDocParagraph \/ Return

SpecPara == InitPara /\ [][NextPara]_vars

(***************************************************************************)
(* Properties of fill_paragraph, stated over SpecPara.  The predicates of  *)
(* this section describe placeholders by their shape in the text and are   *)
(* independent of the pattern matcher above.                               *)
(***************************************************************************)
\* a value that is filled in: neither empty nor "N/A"
Usable(value) == value # <<>> /\ value # <<"N", "/", "A">>

SameName(a, b) == LowerStr(a) = LowerStr(b)

AllIn(text, a, b, cs) == \A i \in a..b : text[i] \in cs

\* the label of a field at position p of a text, in any letter case
LabelAt(name, text, p) ==
    /\ p >= 1
    /\ p + Len(name) - 1 <= Len(text)
    /\ SameName(SubSeq(text, p, p + Len(name) - 1), name)

\* text[p..u-1] is label, whitespace, colon, whitespace and the rest of the
\* text from u on is a blank: underscores up to a position e, or nothing
LabeledBlankAt(name, text, p, u) ==
    /\ LabelAt(name, text, p)
    /\ u <= Len(text) + 1
    /\ \E c \in (p + Len(name))..(u - 1) :
          /\ text[c] = ":"
          /\ AllIn(text, p + Len(name), c - 1, SpaceChars)
          /\ AllIn(text, c + 1, u - 1, SpaceChars)
    /\ u <= Len(text) => text[u] = "_"

Token(open, w, close) == open \o w \o close

TokenAt(open, name, close, text, p) ==
    /\ p >= 1
    /\ p + Len(open) + Len(name) + Len(close) - 1 <= Len(text)
    /\ SubSeq(text, p, p + Len(open) - 1) = open
    /\ LabelAt(name, text, p + Len(open))
    /\ SubSeq(text, p + Len(open) + Len(name),
              p + Len(open) + Len(name) + Len(close) - 1) = close

\* syntax j of the five placeholder syntaxes occurs in the text for a field
HasSyntax(j, name, text) ==
    CASE j = 1 -> \E p \in 1..Len(text), u \in 1..(Len(text) + 1) :
                     LabeledBlankAt(name, text, p, u)
      [] j = 2 -> \E p \in 1..Len(text), u \in 1..Len(text) :
                     /\ LabelAt(name, text, p)
                     /\ u >= p + Len(name)
                     /\ AllIn(text, p + Len(name), u - 1, SpaceChars)
                     /\ text[u] = "_"
      [] j = 3 -> \E p \in 1..Len(text) : TokenAt(<<"[">>, name, <<"]">>, text, p)
      [] j = 4 -> \E p \in 1..Len(text) :
                     TokenAt(<<"{", "{">>, name, <<"}", "}">>, text, p)
      [] j = 5 -> \E p \in 1..Len(text) : TokenAt(<<"<">>, name, <<">">>, text, p)

\* the paragraph of SpecPara before and after the pass
ParaOrig == ParagraphText(doc0.paragraphs[1])

ParaFinal == ParagraphText(doc.paragraphs[1])

Finished == pc \in {"done", "raised"}

OneField == Len(field_values) = 1 /\ Usable(field_values[1].value)

\* C2 (as specified): a paragraph that is a labeled blank of the field becomes
\* the label and colon with their whitespace, followed by exactly the value,
\* for every value that is not empty and not "N/A".
C2LabeledBlankVerbatim ==
    (Finished /\ OneField) =>
        \A u \in 1..(Len(ParaOrig) + 1) :
            (/\ LabeledBlankAt(field_values[1].name, ParaOrig, 1, u)
             /\ AllIn(ParaOrig, u, Len(ParaOrig), {"_"}))
            => /\ pc = "done"
               /\ ParaFinal = SubSeq(ParaOrig, 1, u - 1) \o field_values[1].value

\* the calls of re.sub made for field k of the dict
CallsOf(k) == SelectSeq(calls, LAMBDA c : c.name = field_values[k].name)

Changed(c) == c.after # c.before

PlainValue(name, value) ==
    /\ Usable(value)
    /\ \A i \in 1..Len(value) : value[i] # "\\"
    /\ value[1] \notin Digits
    /\ ~AllIn(value, 1, Len(value), {"_"})
    /\ \A j \in 3..5 : ~HasSyntax(j, name, value)

\* the calls are chained: each is made on the text the one before left
Chained ==
    \A i \in 1..Len(calls) :
        calls[i].before = IF i = 1 THEN ParaOrig ELSE calls[i - 1].after

\* the calls cs made for a field: syntax i is call i, all five are made
\* unless an exception ended the pass, and a syntax found in the text at its
\* turn rewrites it
SyntaxesInOrder(field, cs) ==
    /\ \A i \in 1..Len(cs) : cs[i].j = i
    /\ (pc = "done" /\ Usable(field.value)) => Len(cs) = 5
    /\ ~Usable(field.value) => cs = <<>>
    /\ PlainValue(field.name, field.value) =>
          \A i \in 1..Len(cs) :
              (cs[i].err = "none" /\ HasSyntax(i, field.name, cs[i].before))
                  => Changed(cs[i])

NewText == IF calls = <<>> THEN ParaOrig ELSE calls[Len(calls)].after

\* C5: when fill_paragraph has computed a text that differs from the
\* original text of a paragraph with at least one run, the first run holds
\* the whole new text, every other run is empty, the run texts concatenate
\* to the new text, and the runs and their formatting are as before.
C5RunPreservingRewrite ==
    (pc = "done" /\ NewText # ParaOrig /\ Len(doc0.paragraphs[1]) >= 1) =>
        /\ Len(doc.paragraphs[1]) = Len(doc0.paragraphs[1])
        /\ doc.paragraphs[1][1].text = NewText
        /\ \A i \in 2..Len(doc.paragraphs[1]) : doc.paragraphs[1][i].text = <<>>
        /\ \A i \in 1..Len(doc.paragraphs[1]) :
              doc.paragraphs[1][i].fmt = doc0.paragraphs[1][i].fmt
        /\ ParaFinal = NewText

\* a placeholder in the second of two runs was filled
C5Witness ==
    /\ pc = "done"
    /\ Len(doc0.paragraphs[1]) = 2
    /\ doc0.paragraphs[1][1].text = <<"x">>
    /\ doc0.paragraphs[1][2].text # <<>>
    /\ NewText # ParaOrig
    /\ doc.paragraphs[1][2].text = <<>>

AfterField(k) == CallsOf(k)[Len(CallsOf(k))].after

\* C7 (as specified): when two fields with usable values both match the blank
\* of a paragraph, what the first field put there stays: the later field
\* does not alter it, underscore-only and whitespace-only values included.
C7FirstFieldWins ==
    (/\ pc = "done"
     /\ Len(field_values) = 2
     /\ Usable(field_values[1].value)
     /\ Usable(field_values[2].value)
     /\ Len(doc0.paragraphs[1]) = 1
     /\ \E u \in 1..(Len(ParaOrig) + 1) :
           /\ LabeledBlankAt(field_values[1].name, ParaOrig, 1, u)
           /\ AllIn(ParaOrig, u, Len(ParaOrig), {"_"})
     /\ HasSyntax(1, field_values[2].name, ParaOrig)
     /\ AfterField(1) # ParaOrig)
    => ParaFinal = AfterField(1)

IsToken(name, text) ==
    \/ text = Token(<<"[">>, SubSeq(text, 2, Len(text) - 1), <<"]">>)
          /\ SameName(SubSeq(text, 2, Len(text) - 1), name)
    \/ text = Token(<<"{", "{">>, SubSeq(text, 3, Len(text) - 2), <<"}", "}">>)
          /\ SameName(SubSeq(text, 3, Len(text) - 2), name)
    \/ text = Token(<<"<">>, SubSeq(text, 2, Len(text) - 1), <<">">>)
          /\ SameName(SubSeq(text, 2, Len(text) - 1), name)

\* C8 (as specified): a paragraph that is a token [name], {{name}} or <name>
\* of the field becomes the value alone, for every usable value without a
\* backslash, and no error is raised.
C8TokenBecomesValue ==
    (/\ Finished
     /\ OneField
     /\ \A i \in 1..Len(field_values[1].value) : field_values[1].value[i] # "\\"
     /\ IsToken(field_values[1].name, ParaOrig))
    => pc = "done" /\ ParaFinal = field_values[1].value

\* C9 (as specified): a placeholder whose label differs from the key in
\* letter case only is filled; the label keeps the spelling of the
\* template and the value is inserted unchanged.
C9CaseInsensitiveFill ==
    (Finished /\ OneField) =>
        \A w \in Labels :
            (w # field_values[1].name /\ SameName(w, field_values[1].name)) =>
                /\ ParaOrig = w \o <<":", " ">> \o Blank
                      => ParaFinal = w \o <<":", " ">> \o field_values[1].value
                /\ ParaOrig = w \o Blank => ParaFinal = w \o field_values[1].value
                /\ IsToken(w, ParaOrig) => ParaFinal = field_values[1].value

\* the call that follows call i in the loops of fill_paragraph
FollowsInLoops(c, d) ==
    \/ c.j < 5 /\ d.name = c.name /\ d.j = c.j + 1
    \/ c.j = 5 /\ d.name # c.name /\ d.j = 1

LastUsable(name) ==
    \E k \in 1..Len(field_values) :
        /\ field_values[k].name = name
        /\ \A m \in (k + 1)..Len(field_values) : ~Usable(field_values[m].value)

TableNames == {<<"a", "b">>, <<"b">>}

TableValues == {<<"J">>, <<"_">>, <<"5", "b">>, <<"N", "/", "A">>}

TableFields == [name : TableNames, value : TableValues]

\* a paragraph without text has no run
NoRun == <<>>

\* the cells of a template: empty, a blank, a label, a label with its blank,
\* and a blank followed by an empty paragraph
Cells ==
    {<<NoRun>>, <<OneRun(Blank)>>, <<OneRun(<<"A", "b">>)>>,
     <<OneRun(<<"A", "b", ":", " ">> \o Blank)>>, <<OneRun(Blank), NoRun>>}

MaxRows == 2

MaxCols == 3

MaxCells == 3

\* the tables of r rows of c cells
Tables(r, c) == [1..r -> [1..c -> Cells]]

InitTable ==
    \E r \in 1..MaxRows, c \in 1..MaxCols, f \in 1..MaxFields :
        /\ r * c <= MaxCells
        /\ \E t \in Tables(r, c), fv \in FieldMaps(TableFields, f) :
               Start([paragraphs |-> <<>>, tables |-> <<t>>, sections |-> <<>>], fv)

NextTable == FillTableCell \/ Return

SpecTable == InitTable /\ [][NextTable]_vars

(***************************************************************************)
(* Properties of the label/adjacent-value strategy, stated over SpecTable. *)
(***************************************************************************)
\* the field name occurs in a text, in any letter case
NameIn(name, text) == \E p \in 1..Len(text) : LabelAt(name, text, p)

\* a text that is empty or made of underscores only
IsBlank(text) == AllIn(text, 1, Len(text), {"_"})

Trimmed(cell) == strip(CellText(cell))

\* the texts of the paragraphs of a cell
ParagraphTexts(cell) == [p \in 1..Len(cell) |-> ParagraphText(cell[p])]

\* the paragraph texts of a cell once its first paragraph holds the value
WithValue(texts, value) ==
    IF texts = <<>> THEN <<value>> ELSE [texts EXCEPT ![1] = value]

\* the last of the first m labels that wrote (0 if none)
LastWriter(ls, m) ==
    IF \E w \in 1..m : ls[w].wrote
    THEN CHOOSE w \in 1..m : ls[w].wrote /\ \A v \in (w + 1)..m : ~ls[v].wrote
    ELSE 0

\* the paragraph texts of the following cell after the first m labels
FollowingAfter(next_cell, ls, m) ==
    IF LastWriter(ls, m) = 0 THEN ParagraphTexts(next_cell)
    ELSE WithValue(ParagraphTexts(next_cell), ls[LastWriter(ls, m)].value)

UsableFields == SelectSeq(field_values, LAMBDA f : Usable(f.value))

\* the visit of cell i of a row that was row before and is row2 after, with
\* the record ls of what the strategy did for the fields with a usable value
StrategyWrites(row, row2, i, ls) ==
    /\ Len(row2) = Len(row)
    /\ \A c \in 1..Len(row) : c \notin {i, i + 1} => row2[c] = row[c]
    /\ Len(ls) = Len(UsableFields)
    /\ \A m \in 1..Len(ls) :
          /\ ls[m].name = UsableFields[m].name
          /\ ls[m].value = UsableFields[m].value
          /\ ls[m].wrote <=>
                /\ NameIn(ls[m].name, Trimmed(row[i]))
                /\ i + 1 <= Len(row)
                /\ IsBlank(strip(JoinLines(FollowingAfter(row[i + 1], ls, m - 1))))
    /\ i + 1 <= Len(row) =>
          /\ ParagraphTexts(row2[i + 1]) = FollowingAfter(row[i + 1], ls, Len(ls))
          /\ LastWriter(ls, Len(ls)) = 0 => row2[i + 1] = row[i + 1]

CellStep(loc) ==
    /\ \A r \in 1..Len(doc.tables[1]) :
          r # loc.b => doc'.tables[1][r] = doc.tables[1][r]
    /\ StrategyWrites(doc.tables[1][loc.b], doc'.tables[1][loc.b], loc.c, labels')

\* C6: for a field with a usable value the strategy writes the value into
\* cell i+1 exactly when the name occurs in the text of cell i (any letter
\* case), cell i+1 exists in the row and its trimmed text is empty or only
\* underscores; it replaces the text of the first paragraph of cell i+1 and
\* touches no other row, no first cell and no cell that holds other text.
C6LabelAdjacentValue == [][FillTableCell => CellStep(Locations(doc)[n])]_vars

\* in a row of a label, a blank and an empty cell, the label cell was
\* visited: the blank holds the value and the empty cell is as it was
C6Witness ==
    /\ Len(doc0.tables[1][1]) = 3
    /\ n = 2
    /\ Len(labels) = 1
    /\ labels[1].wrote
    /\ ParagraphTexts(doc0.tables[1][1][2]) = <<Blank>>
    /\ ParagraphTexts(doc.tables[1][1][2]) = <<labels[1].value>>
    /\ doc0.tables[1][1][3] = <<NoRun>>
    /\ doc.tables[1][1][3] = <<NoRun>>

(***************************************************************************)
(* Spec: fill_template over a document with a top-level paragraph, a       *)
(* table of one row and a section with a header and a footer paragraph;    *)
(* the filled document may be filled again with the same dict.             *)
(***************************************************************************)
DocNames == {<<"a", "b">>, <<"b">>}

DocValues ==
    {<<"J">>, <<"\\", "g", "<", "x", ">">>, <<" ">>, <<>>, <<"N", "/", "A">>}

DocFields == [name : DocNames, value : DocValues]

DocParagraphs == {OneRun(<<"A", "b", ":">>), OneRun(<<"[", "A", "b", "]">>)}

\* the cells of a document: an empty paragraph, a label, a blank followed by
\* an empty paragraph, and a cell without a paragraph
DocCells == {<<NoRun>>, <<OneRun(<<"A", "b">>)>>, <<OneRun(Blank), NoRun>>, <<>>}

MaxDocCols == 2

Init ==
    \E f \in 1..MaxFields :
        \E fv \in FieldMaps(DocFields, f), p \in DocParagraphs,
           row \in [1..MaxDocCols -> DocCells], h \in DocParagraphs, g \in DocParagraphs :
            Start([paragraphs |-> <<p>>, tables |-> <<<<row>>>>,
                   sections |-> <<[header |-> <<h>>, footer |-> <<g>>]>>], fv)

Next ==
    \/ FillDocParagraph
    \/ FillTableCell
    \/ FillHeaderParagraph
    \/ FillFooterParagraph
    \/ Return
    \/ FillAgain

Spec == Init /\ [][Next]_vars

(***************************************************************************)
(* Properties of the whole pass, stated over Spec.                         *)
(***************************************************************************)
NoUsableValue == \A k \in 1..Len(field_values) : ~Usable(field_values[k].value)

\* C1: when every value of the dict is the empty string or "N/A", the pass
\* leaves every top-level paragraph, run, table cell and header or footer
\* paragraph as it was, and raises nothing.
C1NothingToFill == NoUsableValue => (doc = doc0 /\ pc # "raised")

\* the pass has returned for a dict of an empty and an "N/A" value whose
\* names occur in a paragraph and in a label cell next to an empty cell
C1Witness ==
    /\ pc = "done"
    /\ NoUsableValue
    /\ Len(field_values) = 2
    /\ field_values[1].value # field_values[2].value
    /\ HasSyntax(1, field_values[1].name, ParagraphText(doc.paragraphs[1]))
    /\ NameIn(field_values[1].name, Trimmed(doc.tables[1][1][1]))
    /\ doc.tables[1][1][2] = <<NoRun>>

\* the texts of the paragraphs outside the tables
ParagraphsText(d) ==
    <<ParagraphText(d.paragraphs[1]), ParagraphText(d.sections[1].header[1]),
      ParagraphText(d.sections[1].footer[1])>>

\* C4 (as specified): a second pass with the same dict over the once-filled
\* document changes the text of no paragraph with labeled-blank, bracket,
\* brace or angle placeholders.
C4SecondPassIdempotent ==
    pass = 2 => (pc # "raised" /\ ParagraphsText(doc) = ParagraphsText(doc0))

(***************************************************************************)
(* SpecWalk: fill_template over documents of up to MaxWalk paragraphs,     *)
(* tables, rows, cells, paragraphs in a cell and sections; every paragraph *)
(* of a document holds the same text.                                      *)
(***************************************************************************)
MaxWalk == 2

WalkTexts == {<<"A", "b", ":">>, <<"x">>}

WalkValues == {<<"J">>, <<"\\", "g", "<", "x", ">">>, <<>>}

WalkFields == [name : {<<"a", "b">>}, value : WalkValues]

\* the document of a shape whose paragraphs all are the paragraph p
WalkDoc(np, nt, nr, nc, ncp, ns, p) ==
    [paragraphs |-> [i \in 1..np |-> p],
     tables     |-> [t \in 1..nt |-> [r \in 1..nr |-> [c \in 1..nc |->
                        [q \in 1..ncp |-> p]]]],
     sections   |-> [s \in 1..ns |-> [header |-> <<p>>, footer |-> <<p>>]]]

InitWalk ==
    \E np \in 0..MaxWalk, nt \in 0..MaxWalk, nr \in 1..MaxWalk, nc \in 1..MaxWalk,
       ncp \in 1..MaxWalk, ns \in 1..MaxWalk :
        \E w \in WalkTexts, fv \in FieldMaps(WalkFields, 1) :
            Start(WalkDoc(np, nt, nr, nc, ncp, ns, OneRun(w)), fv)

NextWalk ==
    \/ FillDocParagraph
    \/ FillTableCell
    \/ FillHeaderParagraph
    \/ FillFooterParagraph
    \/ Return

\* a running pass takes its next step: weak fairness of NextWalk, written
\* with ENABLED <<NextWalk>>_vars spelled out as pc = "running"
WalkFair == []<>(pc # "running") \/ []<><<NextWalk>>_vars

SpecWalk == InitWalk /\ [][NextWalk]_vars /\ WalkFair

(***************************************************************************)
(* Properties of the traversal, stated over SpecWalk.                      *)
(***************************************************************************)
\* every place of a document that holds paragraphs to fill
AllLocations(d) ==
    {Loc("paragraph", p, 0, 0) : p \in 1..Len(d.paragraphs)}
        \cup UNION {UNION {{Loc("cell", t, r, c) : c \in 1..Len(d.tables[t][r])} :
                              r \in 1..Len(d.tables[t])} : t \in 1..Len(d.tables)}
        \cup UNION {{Loc("header", s, p, 0) : p \in 1..Len(d.sections[s].header)} :
                       s \in 1..Len(d.sections)}
        \cup UNION {{Loc("footer", s, p, 0) : p \in 1..Len(d.sections[s].footer)} :
                       s \in 1..Len(d.sections)}

\* paragraphs come first, then the tables, then the headers and footers
Stage(loc) ==
    CASE loc.kind = "paragraph" -> 1
      [] loc.kind = "cell" -> 2
      [] OTHER -> 3

\* the position of a location among those of its stage
Place(loc) ==
    CASE loc.kind = "paragraph" -> <<loc.a, 0, 0>>
      [] loc.kind = "cell" -> <<loc.a, loc.b, loc.c>>
      [] loc.kind = "header" -> <<loc.a, 1, loc.b>>
      [] loc.kind = "footer" -> <<loc.a, 2, loc.b>>

Earlier(x, y) ==
    \/ x[1] < y[1]
    \/ x[1] = y[1] /\ x[2] < y[2]
    \/ x[1] = y[1] /\ x[2] = y[2] /\ x[3] < y[3]

Before(k, l) ==
    \/ Stage(k) < Stage(l)
    \/ Stage(k) = Stage(l) /\ Earlier(Place(k), Place(l))

\* the places the loops reach are all the places of the document, each
\* once, in the order paragraphs, tables (row by row, cell by cell),
\* sections (header before footer)
InOrder(ls, d) ==
    /\ {ls[i] : i \in 1..Len(ls)} = AllLocations(d)
    /\ \A i, j \in 1..Len(ls) : i < j => Before(ls[i], ls[j])

\* a step of the pass handles the place n and moves on to the next one, or
\* raises
OneByOne ==
    \/ pc' = "running" /\ n' = n + 1 /\ pc = "running"
    \/ pc' = "raised" /\ n' = n /\ pc = "running"
    \/ pc' = "done" /\ n' = n /\ n = Len(Locations(doc)) + 1

CallIndex(u, p, j, np) == 5 * ((u - 1) * np + (p - 1)) + j

\* the text a call of re.sub received, given the cell before the visit
CallInput(cell, cs, u, p, j) ==
    IF j > 1 THEN cs[CallIndex(u, p, j - 1, Len(cell))].after
    ELSE IF u > 1 THEN cs[CallIndex(u - 1, p, 5, Len(cell))].after
    ELSE ParagraphText(cell[p])

\* the visit of a cell that was cell before and is cell2 after, with the
\* record cs of its calls of re.sub: every field with a usable value was
\* applied by fill_paragraph to every paragraph of the cell, each on the
\* text the fields before it left there
WithinCellCalls(cell, cell2, cs) ==
    /\ Len(cell2) = Len(cell)
    /\ Len(cs) = 5 * Len(UsableFields) * Len(cell)
    /\ \A u \in 1..Len(UsableFields), p \in 1..Len(cell), j \in 1..5 :
          /\ cs[CallIndex(u, p, j, Len(cell))].name = UsableFields[u].name
          /\ cs[CallIndex(u, p, j, Len(cell))].value = UsableFields[u].value
          /\ cs[CallIndex(u, p, j, Len(cell))].j = j
          /\ cs[CallIndex(u, p, j, Len(cell))].before = CallInput(cell, cs, u, p, j)
    /\ \A p \in 1..Len(cell) :
          ParagraphText(cell2[p]) =
              IF UsableFields = <<>> THEN ParagraphText(cell[p])
              ELSE cs[CallIndex(Len(UsableFields), p, 5, Len(cell))].after

\* cell i of the row is one paragraph that is a labeled blank of the field,
\* with the blank at position u, and the cell after it is empty
LabeledBlankBeforeEmpty(row, i, field, u) ==
    /\ i + 1 <= Len(row)
    /\ Len(row[i]) = 1
    /\ u <= Len(CellText(row[i]))
    /\ LabeledBlankAt(field.name, CellText(row[i]), 1, u)
    /\ AllIn(CellText(row[i]), u, Len(CellText(row[i])), {"_"})
    /\ Trimmed(row[i + 1]) = <<>>

\* the visit of such a cell filled its blank and set the cell after it
BothFilled(row, row2, i, field, u) ==
    /\ ParagraphTexts(row2[i]) = <<SubSeq(CellText(row[i]), 1, u - 1) \o field.value>>
    /\ ParagraphTexts(row2[i + 1])[1] = field.value

WithinCellStep(row, row2, i, cs) ==
    /\ WithinCellCalls(row[i], row2[i], cs)
    /\ Len(UsableFields) = 1 =>
          \A u \in 1..Len(CellText(row[i])) :
              LabeledBlankBeforeEmpty(row, i, UsableFields[1], u)
                  => BothFilled(row, row2, i, UsableFields[1], u)

\* the calls alone, whatever fill_paragraph inserts: at
\* every cell, fill_paragraph is applied for every field with a usable value
\* to every paragraph of the cell, whatever the label/adjacent-value
\* strategy found or wrote
WithinCellAlways ==
    [][FillTableCell =>
          WithinCellCalls(At(doc, Locations(doc)[n]), At(doc', Locations(doc)[n]),
                          calls')]_vars

\* C12 (as specified): at every cell, every field with a usable value is run
\* through fill_paragraph on every paragraph of the cell, whether or not the
\* name was found in the cell and whether or not the following cell was
\* filled; so a cell that is a labeled blank of the field, followed by an
\* empty cell, ends with its own blank filled with the value and the
\* following cell set to the value.
C12WithinCellIndependent ==
    [][FillTableCell =>
          WithinCellStep(doc.tables[1][Locations(doc)[n].b],
                         doc'.tables[1][Locations(doc)[n].b],
                         Locations(doc)[n].c, calls')]_vars

(***************************************************************************)
(* Further properties of fill_paragraph, stated over SpecPara.             *)
(***************************************************************************)
\* C13 (as specified): a paragraph in which whitespace and no colon stands
\* between the label of the field and the underscores is left unchanged
\* by a pass that returns; a paragraph in which the underscores follow the
\* label directly becomes the label followed by the value.
C13UnderscoresDirectlyAfterName ==
    (pc = "done" /\ OneField) =>
        \A w \in Labels :
            SameName(w, field_values[1].name) =>
                /\ ParaOrig = w \o <<" ">> \o Blank => doc = doc0
                /\ ParaOrig = w \o Blank => ParaFinal = w \o field_values[1].value

\* the substitution of one field: its five patterns, one after the other
SubstituteField(text, field) == fill_field(text, field, <<>>).text

\* the left fold of the substitution over the first k fields of the dict
RECURSIVE FoldFields(_, _, _)
FoldFields(text, fv, k) ==
    IF k = 0 THEN text ELSE SubstituteField(FoldFields(text, fv, k - 1), fv[k])

\* the position of a key in the dict
FieldIndex(name) == CHOOSE k \in 1..Len(field_values) : field_values[k].name = name

\* the paragraph holds the text folded and was written only if folded differs
\* from the text it had
FoldWritten(folded) ==
    /\ ParaFinal = folded
    /\ folded = ParaOrig => doc = doc0
    /\ \A i, j \in 1..Len(calls) :
          i < j => FieldIndex(calls[i].name) <= FieldIndex(calls[j].name)

\* C14: after fill_paragraph the text of the paragraph is the left fold, in
\* the order of the dict, of the substitution of each field over the
\* original text, no field is applied again after a later one, and when the
\* fold gives the original text the paragraph and its runs are not written.
C14SequentialApplication ==
    pc = "done" =>
        \A folded \in {FoldFields(ParaOrig, field_values, Len(field_values))} :
            FoldWritten(folded)

\* the value of the first field brought a token of the second field, which
\* the second field filled
C14Witness ==
    /\ pc = "done"
    /\ field_values = <<[name |-> <<"a", "b">>, value |-> <<"<", "a", ".", ">", "J">>],
                        [name |-> <<"a", ".">>, value |-> <<"J">>]>>
    /\ ParaOrig = <<"[", "A", "b", "]">>
    /\ ParaFinal = <<"J", "J">>

\* the same dict in the other order: the token stays
LaterTokenStays ==
    /\ pc = "done"
    /\ field_values = <<[name |-> <<"a", ".">>, value |-> <<"J">>],
                        [name |-> <<"a", "b">>, value |-> <<"<", "a", ".", ">", "J">>]>>
    /\ ParaOrig = <<"[", "A", "b", "]">>
    /\ ParaFinal = <<"<", "a", ".", ">", "J">>

(***************************************************************************)
(* The label/adjacent-value strategy along a row, stated over SpecTable.   *)
(***************************************************************************)
\* every field that wrote the following cell at this visit has its name in
\* the text the visited cell had before the pass
LabelsFromTemplate(loc) ==
    \A m \in 1..Len(labels') :
        labels'[m].wrote =>
            NameIn(labels'[m].name, Trimmed(doc0.tables[loc.a][loc.b][loc.c]))

\* C15 (as specified): within one pass over a table the strategy writes the
\* value of a field into a cell only if the cell to its left held the name
\* of the field in the text of the template, before the pass; a value
\* written into a cell earlier in the row is never taken as a label.
C15LabelFromTemplateOnly == [][FillTableCell => LabelsFromTemplate(Locations(doc)[n])]_vars

(***************************************************************************)
(* The structure of the document, stated over Spec.                        *)
(***************************************************************************)
\* the numbers of paragraphs of the cells of a table, row by row
TableShape(table) ==
    [r \in 1..Len(table) |-> [c \in 1..Len(table[r]) |-> Len(table[r][c])]]

\* the numbers of paragraphs, tables, rows, cells, paragraphs of a cell,
\* sections and paragraphs of a header and a footer
Shape(d) ==
    [paragraphs |-> Len(d.paragraphs),
     tables     |-> [t \in 1..Len(d.tables) |-> TableShape(d.tables[t])],
     sections   |-> [s \in 1..Len(d.sections) |->
                        [header |-> Len(d.sections[s].header),
                         footer |-> Len(d.sections[s].footer)]]]

ShapeOfFilled(d) ==
    [Shape(d) EXCEPT !.tables =
        [t \in 1..Len(d.tables) |->
            [r \in 1..Len(d.tables[t]) |->
                [c \in 1..Len(d.tables[t][r]) |->
                    IF d.tables[t][r][c] = <<>> THEN 1 ELSE Len(d.tables[t][r][c])]]]]

\* a cell that had no paragraph and has one holds the value of a field
GotValue(cell0, cell) ==
    cell0 = <<>> =>
        \/ cell = <<>>
        \/ \E k \in 1..Len(field_values) :
              /\ Usable(field_values[k].value)
              /\ ParagraphTexts(cell) = <<field_values[k].value>>

=============================================================================
